---- MODULE Spec2Model ----
(***************************************************************************)
(* Model of the two CI scripts of devops_tools:                            *)
(*   gitaction/linear-ticket-check/validate_ticket.py     (the validator)  *)
(*   gitaction/release-notes-generator/generate_notes.py  (the generator)  *)
(* A text is a sequence of one-character strings.  Each script is a        *)
(* sequential program; pc / npc is its position.  Values read from the     *)
(* environment or received from a remote service are chosen when the code  *)
(* reads them.                                                             *)
(***************************************************************************)
EXTENDS Integers, Sequences, FiniteSets, TLC

VARIABLES
    \* ---- pattern matcher run on one text (SpecMatcher)
    m_text, m_result,
    \* ---- validator (SpecValidator)
    pc, linear_api_key, event_name, commit_msg, env_pr_body, pr_body, pr_title,
    text_to_check, check_source, match, ticket_id, resp, linear_queries,
    failures, comment_attempts, comment_result, repo, pr_num, token, exit_code,
    \* ---- release notes generator (SpecNotes)
    npc, n_api_key, dry_run_env, is_dry_run, prev_tag, log_range, commits,
    linear_ids, change_log_lines, fetch, summary_lines, release_info,
    markdown_body, file, write_attempts, write_result, n_output, lookups,
    lookup_result, patches, patch_result, release_body, n_exit

mvars == <<m_text, m_result>>
vvars == <<pc, linear_api_key, event_name, commit_msg, env_pr_body, pr_body,
           pr_title, text_to_check, check_source, match, ticket_id, resp,
           linear_queries, failures, comment_attempts, comment_result, repo,
           pr_num, token, exit_code>>
nvars == <<npc, n_api_key, dry_run_env, is_dry_run, prev_tag, log_range,
           commits, linear_ids, change_log_lines, fetch, summary_lines,
           release_info, markdown_body, file, write_attempts, write_result,
           n_output, lookups, lookup_result, patches, patch_result,
           release_body, n_exit>>
vars == <<mvars, vvars, nvars>>

----------------------------------------------------------------------------
(* Bounds of the model *)

\* longest description (text after the separator) the matcher is tried on
MaxDescLen == 11
\* most lines the git log returns
MaxCommits == 2

(* Program constants *)

\* the {10,} of the validator's pattern
MinDescLen == 10

----------------------------------------------------------------------------
(* Characters and texts *)

UpperChars == {"A","B","C","D","E","F","G","H","I","J","K","L","M",
               "N","O","P","Q","R","S","T","U","V","W","X","Y","Z"}
DigitChars == {"0","1","2","3","4","5","6","7","8","9"}
\* characters \s matches (those of the model's alphabet)
SpaceChars == {" ", "\t", "\n", "\r", "\f"}
\* characters str.splitlines() breaks a line at (those of the model's alphabet)
LineBreakChars == {"\n", "\r", "\f"}

\* [A-Z]
IsUpper(c) == c \in UpperChars
\* \d
IsDigit(c) == c \in DigitChars
\* \s
IsSpace(c) == c \in SpaceChars
\* . (without DOTALL: anything but a newline)
IsDot(c) == c # "\n"

\* str.startswith
StartsWith(t, p) == Len(t) >= Len(p) /\ SubSeq(t, 1, Len(p)) = p

\* first index >= i of t that holds no uppercase letter (Len(t)+1 if none):
\* where the greedy [A-Z]+ started at i stops
RECURSIVE UpperRunEnd(_, _)
UpperRunEnd(t, i) ==
    IF i <= Len(t) /\ IsUpper(t[i]) THEN UpperRunEnd(t, i + 1) ELSE i

\* where the greedy \d+ started at i stops
RECURSIVE DigitRunEnd(_, _)
DigitRunEnd(t, i) ==
    IF i <= Len(t) /\ IsDigit(t[i]) THEN DigitRunEnd(t, i + 1) ELSE i

\* where the greedy .{10,} started at i stops
RECURSIVE DotRunEnd(_, _)
DotRunEnd(t, i) ==
    IF i <= Len(t) /\ IsDot(t[i]) THEN DotRunEnd(t, i + 1) ELSE i

\* re.search(r'^([A-Z]+-\d+):\s(.{10,})', t): the index of the ':' when the
\* pattern matches at the start of t, 0 when it does not.  Each greedy run is
\* followed by a character outside its class, so no backtracking changes
\* whether the pattern matches.
ColonOfMatch(t) ==
    LET a == UpperRunEnd(t, 1)
        b == DigitRunEnd(t, a + 1)
        d == DotRunEnd(t, b + 2)
    IN  IF /\ a > 1
           /\ a <= Len(t) /\ t[a] = "-"
           /\ b > a + 1
           /\ b <= Len(t) /\ t[b] = ":"
           /\ b + 1 <= Len(t) /\ IsSpace(t[b + 1])
           /\ d - (b + 2) >= MinDescLen
        THEN b ELSE 0

\* bool(match)
ReMatches(t) == ColonOfMatch(t) # 0
\* match.group(1)
Group1(t) == SubSeq(t, 1, ColonOfMatch(t) - 1)

\* n copies of character c
Rep(c, n) == [i \in 1..n |-> c]

----------------------------------------------------------------------------
(* The pattern matcher alone, on a systematic family of texts *)

HeadLetters == {<<>>, <<"E">>, <<"E","N">>, <<"e">>, <<"E","n">>}
HeadHyphen  == {<<>>, <<"-">>}
HeadDigits  == {<<>>, <<"1">>, <<"1","2">>, <<"x">>}
HeadColon   == {<<>>, <<":">>}
HeadSep     == {<<>>, <<" ">>, <<"\t">>, <<"\n">>, <<" "," ">>}
\* descriptions: n letters, or n letters with the k-th replaced by a newline
PlainDescs == {Rep("a", n) : n \in (MinDescLen - 2)..MaxDescLen}
BrokenDescs ==
    UNION {{[Rep("a", n) EXCEPT ![k] = "\n"] : k \in {1, MinDescLen, n}} :
              n \in MinDescLen..MaxDescLen}
Descs == PlainDescs \cup BrokenDescs

MatcherTexts ==
    {l \o h \o g \o c \o s \o d :
        l \in HeadLetters, h \in HeadHyphen, g \in HeadDigits,
        c \in HeadColon, s \in HeadSep, d \in Descs}

\* the matcher applied to one text
NotSearched == [searched |-> FALSE, matched |-> FALSE, group |-> <<>>]
M_Start == m_text = <<>> /\ m_result = NotSearched
M_Choose == m_text \in MatcherTexts /\ m_result = NotSearched

----------------------------------------------------------------------------
(* Values of the environment and of JSON responses *)

\* os.environ.get of a variable that is not set
NoneVal == "<None>"
\* an environment variable: not set, set to the empty string, set to a value
EnvVals == {NoneVal, "", "value"}
\* Python truth of such a value ("if x", "not x", "a and b")
Truthy(v) == v # NoneVal /\ v # ""

Events == {"push", "pull_request", "workflow_dispatch"}

\* A JSON value, by what the code can tell of it: null (or a missing key, which
\* dict.get turns into None), a false non-object (0, "", false, []), the empty
\* object, a true non-object ("x", 1, [1]), a non-empty object.
NA == "n/a"
JsonKinds == {"null", "false_scalar", "empty_obj", "true_scalar", "obj"}
JsonTruthy(k) == k \in {"true_scalar", "obj"}
\* whether value.get(...) works (a dict) or raises AttributeError
IsDict(k) == k \in {"empty_obj", "obj"}

\* What urlopen + json.loads of the issue query can give: a network/HTTP
\* exception, a body that is no JSON, or a JSON value with (when they are
\* objects) its "data", data's "issue" and issue's "id".
Response(h, t, d, i, x) == [http |-> h, top |-> t, data |-> d, issue |-> i, id |-> x]
Responses ==
    {Response(h, NA, NA, NA, NA) : h \in {"neterror", "badjson"}}
    \cup {Response("ok", t, NA, NA, NA) : t \in JsonKinds \ {"obj"}}
    \cup {Response("ok", "obj", d, NA, NA) : d \in JsonKinds \ {"obj"}}
    \cup {Response("ok", "obj", "obj", i, NA) : i \in JsonKinds \ {"obj"}}
    \cup {Response("ok", "obj", "obj", "obj", x) : x \in JsonKinds}
NoResp == Response("none", NA, NA, NA, NA)

----------------------------------------------------------------------------
(* Texts the validator is run on *)

Ticket1 == <<"E","N","G","-","1">>
T_Valid == Ticket1 \o <<":"," ">> \o Rep("a", MinDescLen)
T_Long  == Ticket1 \o <<":"," ">> \o Rep("a", MaxDescLen)
T_Tab   == Ticket1 \o <<":","\t">> \o Rep("a", MinDescLen)
T_Short == Ticket1 \o <<":"," ">> \o Rep("a", MinDescLen - 1)
T_Lower == <<"e","n","g","-","1",":"," ">> \o Rep("a", MinDescLen)
MergeBranch == <<"M","e","r","g","e"," ","b","r","a","n","c","h">>
MergePullRequest ==
    <<"M","e","r","g","e"," ","p","u","l","l"," ","r","e","q","u","e","s","t">>
NoneLiteral == <<"N","o","n","e">>

CommitMsgs ==
    {<<>>, T_Valid, T_Long, T_Tab, T_Short, T_Lower,
     T_Valid \o <<"\n","\n">> \o T_Short,
     MergeBranch, MergeBranch \o <<" ">> \o T_Valid,
     MergePullRequest \o <<" ","#","1">>,
     SubSeq(MergeBranch, 1, 5) \o <<" ">> \o T_Valid}
PrBodies ==
    {<<>>, NoneLiteral, T_Valid, T_Short,
     T_Valid \o <<"\n">> \o T_Short,
     T_Short \o <<"\r","\n">> \o T_Valid,
     <<"\n">> \o T_Valid,
     NoneLiteral \o <<"\n">> \o T_Valid}
PrTitles == {<<>>, T_Valid, T_Short, NoneLiteral}

\* index of the first line break of t at or after i (Len(t)+1 if none)
RECURSIVE LineEnd(_, _)
LineEnd(t, i) ==
    IF i <= Len(t) /\ t[i] \notin LineBreakChars THEN LineEnd(t, i + 1) ELSE i
\* t.splitlines()[0], for t that is not empty
FirstLine(t) == SubSeq(t, 1, LineEnd(t, 1) - 1)
\* whether t.splitlines() is the empty list
NoLines(t) == t = <<>>

----------------------------------------------------------------------------
(* The validator: validate_ticket.py *)

\* (mutant) the comment is posted on any event
ShouldCommentAnyEvent(ev, r, n, t) == Truthy(r) /\ Truthy(n) /\ Truthy(t)

\* fail_with_comment's condition for posting a comment
ShouldComment(ev, r, n, t) ==
    ev = "pull_request" /\ Truthy(r) /\ Truthy(n) /\ Truthy(t)

\* fail_with_comment(message), called once for each element of msgs (one call
\* ends the run: sys.exit(1)).  It reads the repository, PR number and token,
\* posts the comment when it should (the post succeeds or raises, and a raise
\* is only logged), and exits 1.  EVENT_NAME is read again from the same
\* environment, so it is event_name.
FailWithComment(msgs) ==
    \E r \in EnvVals, n \in EnvVals, t \in EnvVals, post \in {"posted", "failed"} :
        LET attempt == ShouldComment(event_name, r, n, t) IN
        /\ failures' = failures \o msgs
        /\ repo' = r /\ pr_num' = n /\ token' = t
        /\ comment_attempts' = comment_attempts + (IF attempt THEN Len(msgs) ELSE 0)
        /\ comment_result' = IF attempt THEN post ELSE "none"
        /\ exit_code' = 1
        /\ pc' = "done"

NoFail ==
    UNCHANGED <<failures, repo, pr_num, token, comment_attempts, comment_result>>

V_Start ==
    /\ pc = "start" /\ linear_api_key = NoneVal /\ event_name = NoneVal
    /\ commit_msg = <<>> /\ env_pr_body = <<>> /\ pr_body = <<>> /\ pr_title = <<>>
    /\ text_to_check = <<>> /\ check_source = "" /\ match = "unset"
    /\ ticket_id = <<>> /\ resp = NoResp /\ linear_queries = 0
    /\ failures = <<>> /\ comment_attempts = 0 /\ comment_result = "none"
    /\ repo = NoneVal /\ pr_num = NoneVal /\ token = NoneVal
    /\ exit_code = -1

\* lines 45-46: the API key and the event type are read
V_ReadConfig ==
    /\ pc = "start"
    /\ linear_api_key' \in EnvVals
    /\ event_name' \in Events
    /\ pc' = "resolve"
    /\ UNCHANGED <<commit_msg, env_pr_body, pr_body, pr_title, text_to_check,
                   check_source, match, ticket_id, resp, linear_queries,
                   failures, comment_attempts, comment_result, repo, pr_num,
                   token, exit_code>>
    /\ UNCHANGED <<mvars, nvars>>

\* (mutant) only the pull-request merge prefix is known
IsMergePullRequestOnly(t) == StartsWith(t, MergePullRequest)

\* line 59
IsMergeCommit(t) == StartsWith(t, MergePullRequest) \/ StartsWith(t, MergeBranch)

\* lines 52-61: a push; the commit message is the text, and a merge commit
\* ends the run with exit code 0
V_ResolvePush ==
    /\ pc = "resolve" /\ event_name = "push"
    /\ \E m \in CommitMsgs :
        /\ commit_msg' = m
        /\ text_to_check' = m
        /\ check_source' = "Commit Message"
        /\ IF IsMergeCommit(m)
           THEN pc' = "done" /\ exit_code' = 0
           ELSE pc' = "match" /\ UNCHANGED exit_code
    /\ NoFail
    /\ UNCHANGED <<linear_api_key, event_name, env_pr_body, pr_body, pr_title,
                   match, ticket_id, resp, linear_queries>>
    /\ UNCHANGED <<mvars, nvars>>

\* (mutant) the literal "None" is not taken for an empty body
NormalizeBodyEmptyOnly(b) == b

\* lines 69-70
NormalizeBody(b) == IF b = <<>> \/ b = NoneLiteral THEN <<>> ELSE b

\* lines 72-86: the text and its label, from the normalized body and the title
PullRequestText(b, t) ==
    IF NoLines(b)
    THEN [text |-> t, source |-> "PR Title"]
    ELSE [text |-> FirstLine(b), source |-> "First line of PR Description"]

\* lines 64-86: a pull request
V_ResolvePullRequest ==
    /\ pc = "resolve" /\ event_name = "pull_request"
    /\ \E b \in PrBodies, t \in PrTitles :
        LET nb == NormalizeBody(b)
            src == PullRequestText(nb, t)
        IN  /\ env_pr_body' = b
            /\ pr_body' = nb
            /\ pr_title' = t
            /\ text_to_check' = src.text
            /\ check_source' = src.source
            /\ IF NoLines(nb) /\ src.text = <<>>
               THEN FailWithComment(<<"empty_pr">>)
               ELSE pc' = "match" /\ NoFail /\ UNCHANGED exit_code
    /\ UNCHANGED <<linear_api_key, event_name, commit_msg, match, ticket_id,
                   resp, linear_queries>>
    /\ UNCHANGED <<mvars, nvars>>

\* lines 52, 64: any other event type leaves the text empty
V_ResolveOther ==
    /\ pc = "resolve" /\ event_name \notin {"push", "pull_request"}
    /\ pc' = "match"
    /\ NoFail
    /\ UNCHANGED <<linear_api_key, event_name, commit_msg, env_pr_body, pr_body,
                   pr_title, text_to_check, check_source, match, ticket_id,
                   resp, linear_queries, exit_code>>
    /\ UNCHANGED <<mvars, nvars>>

\* lines 91-98: the pattern is applied to the text
V_Match ==
    /\ pc = "match"
    /\ IF ReMatches(text_to_check)
       THEN /\ match' = "match"
            /\ ticket_id' = Group1(text_to_check)
            /\ pc' = "key"
            /\ NoFail /\ UNCHANGED exit_code
       ELSE /\ match' = "None"
            /\ UNCHANGED ticket_id
            /\ FailWithComment(<<"format">>)
    /\ UNCHANGED <<linear_api_key, event_name, commit_msg, env_pr_body, pr_body,
                   pr_title, text_to_check, check_source, resp, linear_queries>>
    /\ UNCHANGED <<mvars, nvars>>

\* (mutant) only an unset key counts as missing
KeyMissingUnsetOnly(k) == k = NoneVal

\* line 101
KeyMissing(k) == ~Truthy(k)

\* lines 101-102: the API key is required from here on
V_CheckKey ==
    /\ pc = "key"
    /\ IF KeyMissing(linear_api_key)
       THEN FailWithComment(<<"no_api_key">>)
       ELSE pc' = "query" /\ NoFail /\ UNCHANGED exit_code
    /\ UNCHANGED <<linear_api_key, event_name, commit_msg, env_pr_body, pr_body,
                   pr_title, text_to_check, check_source, match, ticket_id,
                   resp, linear_queries>>
    /\ UNCHANGED <<mvars, nvars>>

\* lines 113-127: how the body of the try block ends on response r: an
\* exception ("raise"), sys.exit(0) ("exit_ok"), or one of its two calls of
\* fail_with_comment, which ends in sys.exit(1)
TryBody(r) ==
    IF r.http # "ok" THEN "raise"                \* urlopen or json.loads raises
    ELSE IF ~IsDict(r.top) THEN "raise"          \* resp_data.get: AttributeError
    ELSE LET data_obj == IF r.top = "obj" THEN r.data ELSE "null" IN
         IF ~JsonTruthy(data_obj) THEN "fail_api"
         ELSE IF ~IsDict(data_obj) THEN "raise"  \* data_obj.get: AttributeError
         ELSE IF ~JsonTruthy(r.issue) THEN "fail_notfound"
         ELSE IF ~IsDict(r.issue) THEN "raise"   \* issue.get: AttributeError
         ELSE IF JsonTruthy(r.id) THEN "exit_ok"
         ELSE "fail_notfound"

\* (mutant) a bare "except:" would catch SystemExit too
CaughtByBareExcept(b) == TRUE

\* line 129: "except Exception" catches an exception; it does not catch the
\* SystemExit that sys.exit raises
CaughtByExcept(b) == b = "raise"

\* the failures reported on response r, in order
QueryFailures(r) ==
    LET b == TryBody(r) IN
    (CASE b = "fail_api" -> <<"api_error">>
       [] b = "fail_notfound" -> <<"not_found">>
       [] OTHER -> <<>>)
    \o (IF CaughtByExcept(b) THEN <<"connection">> ELSE <<>>)

\* lines 104-130: the issue query is sent and its response judged
V_Query ==
    /\ pc = "query"
    /\ \E r \in Responses :
        /\ resp' = r
        /\ linear_queries' = linear_queries + 1
        /\ IF QueryFailures(r) = <<>>
           THEN pc' = "done" /\ exit_code' = 0 /\ NoFail
           ELSE FailWithComment(QueryFailures(r))
    /\ UNCHANGED <<linear_api_key, event_name, commit_msg, env_pr_body, pr_body,
                   pr_title, text_to_check, check_source, match, ticket_id>>
    /\ UNCHANGED <<mvars, nvars>>

V_Next ==
    \/ V_ReadConfig
    \/ V_ResolvePush
    \/ V_ResolvePullRequest
    \/ V_ResolveOther
    \/ V_Match
    \/ V_CheckKey
    \/ V_Query

----------------------------------------------------------------------------
(* The release notes generator: generate_notes.py *)

UpperSeq == <<"A","B","C","D","E","F","G","H","I","J","K","L","M",
              "N","O","P","Q","R","S","T","U","V","W","X","Y","Z">>
LowerSeq == <<"a","b","c","d","e","f","g","h","i","j","k","l","m",
              "n","o","p","q","r","s","t","u","v","w","x","y","z">>
\* str.lower, character by character
LowerChar(c) ==
    IF c \in UpperChars
    THEN LowerSeq[CHOOSE i \in 1..26 : UpperSeq[i] = c]
    ELSE c
Lower(t) == [i \in 1..Len(t) |-> LowerChar(t[i])]

TrueLiteral == <<"t","r","u","e">>
\* os.environ.get('DRY_RUN', 'false'): the values tried
DryRunValues ==
    {TrueLiteral, <<"T","r","u","E">>, <<"T","R","U","E">>,
     <<"f","a","l","s","e">>, <<"y","e","s">>}
\* (mutant) the flag is compared without lower()
IsDryRunExactCase(v) == v = TrueLiteral

\* line 21
IsDryRun(v) == Lower(v) = TrueLiteral

CurrentTag == "v1.0.1"
\* what git describe gives for the tag before: a tag, or nothing
PrevTags == {"", "v1.0.0"}

\* Ticket ids, in the order sorted() puts them (string order: "ENG-10" is
\* before "ENG-2")
TicketOrder == <<"ENG-10", "ENG-2">>
TicketIds == {TicketOrder[i] : i \in 1..Len(TicketOrder)}
\* sorted(S), for a set S of ticket ids
SortedIds(S) == SelectSeq(TicketOrder, LAMBDA x : x \in S)

\* A line of the git log, split at "|" (at most twice): fewer than three
\* fields (here the hash alone), or hash, author and subject.  A subject is a
\* sequence of words, some of them ticket ids.
Subjects == {<<"fix">>, <<"ENG-2", "fix">>, <<"ENG-2", "ENG-10">>}
LogLines == {<<"a1b2">>} \cup {<<"a1b2", "ann", s>> : s \in Subjects}
GitLogs == UNION {[1..n -> LogLines] : n \in 0..MaxCommits}

\* re.findall(id_pattern, subject): the ticket ids of the subject, in order
FindAll(subject) == SelectSeq(subject, LAMBDA w : w \in TicketIds)

\* lines 53-59: the change log lines of the commits (a line without two "|"
\* is skipped)
RECURSIVE ChangeLog(_)
ChangeLog(cs) ==
    IF cs = <<>> THEN <<>>
    ELSE LET line == Head(cs) IN
         (IF Len(line) < 3 THEN <<>>
          ELSE <<[subject |-> line[3], hash |-> line[1], author |-> line[2]]>>)
         \o ChangeLog(Tail(cs))

\* lines 61-63: the set of ticket ids of the commits
RECURSIVE ExtractIds(_)
ExtractIds(cs) ==
    IF cs = <<>> THEN {}
    ELSE LET line == Head(cs) IN
         (IF Len(line) < 3 THEN {}
          ELSE {FindAll(line[3])[i] : i \in 1..Len(FindAll(line[3]))})
         \cup ExtractIds(Tail(cs))

\* The issue nodes a metadata response can hold for the ids asked: the nodes of
\* some of the ids, all complete or one of them lacking a key the loop reads.
NodeLists(ids) ==
    UNION {{[i \in 1..Cardinality(R) |->
                [id |-> SortedIds(R)[i], complete |-> i # bad]] :
            bad \in 0..Cardinality(R)} : R \in SUBSET ids}

\* lines 92-93: the summary lines appended before the loop ends or raises
RECURSIVE ProcessNodes(_)
ProcessNodes(nodes) ==
    IF nodes = <<>> THEN <<>>
    ELSE IF ~Head(nodes).complete THEN <<>>       \* KeyError: the loop is left
    ELSE <<Head(nodes).id>> \o ProcessNodes(Tail(nodes))

\* whether the loop over the nodes raises
NodesRaise(nodes) == \E i \in 1..Len(nodes) : ~nodes[i].complete

NoFetch == [attempted |-> FALSE, failed |-> FALSE, nodes |-> <<>>]
NoInfo == [branch |-> "Unknown", time |-> "now", author |-> "Unknown"]
NoDoc == [info |-> NoInfo, summary |-> [kind |-> "unset", lines |-> <<>>],
          changes |-> [kind |-> "unset", lines |-> <<>>]]
NoFile == [state |-> "absent", content |-> NoDoc]

N_Start ==
    /\ npc = "start" /\ n_api_key = NoneVal /\ dry_run_env = <<>>
    /\ is_dry_run = FALSE /\ prev_tag = "" /\ log_range = <<"", "">>
    /\ commits = <<>> /\ linear_ids = {} /\ change_log_lines = <<>>
    /\ fetch = NoFetch /\ summary_lines = <<>> /\ release_info = NoInfo
    /\ markdown_body = NoDoc /\ file = NoFile /\ write_attempts = 0
    /\ write_result = "none" /\ n_output = "none" /\ lookups = 0
    /\ lookup_result = "none" /\ patches = 0 /\ patch_result = "none"
    /\ release_body = NoDoc /\ n_exit = -1

\* (mutant) the local file is written in no step
StepAfterSkippingWrite(step) ==
    CASE step = "start"    -> "range"
      [] step = "range"    -> "log"
      [] step = "log"      -> "extract"
      [] step = "extract"  -> "fetch"
      [] step = "fetch"    -> "info"
      [] step = "info"     -> "assemble"
      [] step = "assemble" -> "deliver"
      [] step = "deliver"  -> "patch"
      [] OTHER             -> "done"

\* the order of main's steps
StepAfter(step) ==
    CASE step = "start"    -> "range"
      [] step = "range"    -> "log"
      [] step = "log"      -> "extract"
      [] step = "extract"  -> "fetch"
      [] step = "fetch"    -> "info"
      [] step = "info"     -> "assemble"
      [] step = "assemble" -> "write"
      [] step = "write"    -> "deliver"
      [] step = "deliver"  -> "patch"
      [] OTHER             -> "done"

\* lines 15-25: the configuration is read
N_ReadConfig ==
    /\ npc = "start"
    /\ n_api_key' \in EnvVals
    /\ \E v \in DryRunValues : dry_run_env' = v /\ is_dry_run' = IsDryRun(v)
    /\ npc' = StepAfter("start")
    /\ UNCHANGED <<prev_tag, log_range, commits, linear_ids, change_log_lines,
                   fetch, summary_lines, release_info, markdown_body, file,
                   write_attempts, write_result, n_output, lookups,
                   lookup_result, patches, patch_result, release_body, n_exit>>
    /\ UNCHANGED <<mvars, vvars>>

\* lines 33-38: the range of the log, <<after, through>> ("" is the start of
\* history)
RangeOf(prev) == IF prev # "" THEN <<prev, CurrentTag>> ELSE <<"", CurrentTag>>

\* lines 28-38: the previous tag is looked for (a failure gives none)
N_ResolveRange ==
    /\ npc = "range"
    /\ \E t \in PrevTags : prev_tag' = t /\ log_range' = RangeOf(t)
    /\ npc' = StepAfter("range")
    /\ UNCHANGED <<n_api_key, dry_run_env, is_dry_run, commits, linear_ids,
                   change_log_lines, fetch, summary_lines, release_info,
                   markdown_body, file, write_attempts, write_result, n_output,
                   lookups, lookup_result, patches, patch_result, release_body,
                   n_exit>>
    /\ UNCHANGED <<mvars, vvars>>

\* lines 41-46: the log is read; a failure ends the run with exit code 1
N_GitLog ==
    /\ npc = "log"
    /\ \/ /\ \E cs \in GitLogs : commits' = cs
          /\ npc' = StepAfter("log")
          /\ UNCHANGED <<n_output, n_exit>>
       \/ /\ n_output' = "git_log_error"
          /\ n_exit' = 1
          /\ npc' = "done"
          /\ UNCHANGED commits
    /\ UNCHANGED <<n_api_key, dry_run_env, is_dry_run, prev_tag, log_range,
                   linear_ids, change_log_lines, fetch, summary_lines,
                   release_info, markdown_body, file, write_attempts,
                   write_result, lookups, lookup_result, patches, patch_result,
                   release_body>>
    /\ UNCHANGED <<mvars, vvars>>

\* lines 49-63: the ticket ids and the change log lines of the commits
N_Extract ==
    /\ npc = "extract"
    /\ linear_ids' = ExtractIds(commits)
    /\ change_log_lines' = ChangeLog(commits)
    /\ npc' = StepAfter("extract")
    /\ UNCHANGED <<n_api_key, dry_run_env, is_dry_run, prev_tag, log_range,
                   commits, fetch, summary_lines, release_info, markdown_body,
                   file, write_attempts, write_result, n_output, lookups,
                   lookup_result, patches, patch_result, release_body, n_exit>>
    /\ UNCHANGED <<mvars, vvars>>

\* line 67
ShouldFetch(ids, key) == ids # {} /\ Truthy(key)

\* lines 66-95: the titles are fetched; the request fails, or its response
\* holds nodes, whose lines are appended until the loop ends or raises
N_Fetch ==
    /\ npc = "fetch"
    /\ IF ShouldFetch(linear_ids, n_api_key)
       THEN \/ /\ fetch' = [attempted |-> TRUE, failed |-> TRUE, nodes |-> <<>>]
               /\ summary_lines' = <<>>
            \/ \E nodes \in NodeLists(linear_ids) :
               /\ fetch' = [attempted |-> TRUE, failed |-> NodesRaise(nodes),
                            nodes |-> nodes]
               /\ summary_lines' = ProcessNodes(nodes)
       ELSE /\ fetch' = NoFetch
            /\ summary_lines' = <<>>
    /\ npc' = StepAfter("fetch")
    /\ UNCHANGED <<n_api_key, dry_run_env, is_dry_run, prev_tag, log_range,
                   commits, linear_ids, change_log_lines, release_info,
                   markdown_body, file, write_attempts, write_result, n_output,
                   lookups, lookup_result, patches, patch_result, release_body,
                   n_exit>>
    /\ UNCHANGED <<mvars, vvars>>

\* lines 98-128: branch, time and author of the release info, from the event
\* payload and the actor of the environment.  The payload is absent or
\* unreadable (the defaults stay; so they do for a release event that holds
\* none of the fields), a release event with all its fields, a release event
\* of which only the branch is taken (no author or date, or an exception
\* after the branch was read), or another event.
ReleaseInfoOf(payload, actor) ==
    CASE payload = "release" ->
            [branch |-> "target_commitish", time |-> "created_at", author |-> "login"]
      [] payload = "release_partial" ->
            [branch |-> "target_commitish", time |-> "now", author |-> actor]
      [] payload = "other" ->
            [branch |-> CurrentTag, time |-> "now", author |-> actor]
      [] OTHER ->
            [branch |-> "Unknown", time |-> "now", author |-> actor]

N_ReleaseInfo ==
    /\ npc = "info"
    /\ \E payload \in {"absent", "release", "release_partial", "other"},
          actor \in {"Unknown", "actor"} :
        release_info' = ReleaseInfoOf(payload, actor)
    /\ npc' = StepAfter("info")
    /\ UNCHANGED <<n_api_key, dry_run_env, is_dry_run, prev_tag, log_range,
                   commits, linear_ids, change_log_lines, fetch, summary_lines,
                   markdown_body, file, write_attempts, write_result, n_output,
                   lookups, lookup_result, patches, patch_result, release_body,
                   n_exit>>
    /\ UNCHANGED <<mvars, vvars>>

\* lines 136-145: the summary section
SummarySection(lines, ids) ==
    IF lines # <<>> THEN [kind |-> "listing", lines |-> lines]
    ELSE IF ids # {} THEN [kind |-> "warning", lines |-> SortedIds(ids)]
    ELSE [kind |-> "none", lines |-> <<>>]

\* lines 147-151: the change log section
ChangesSection(cl) ==
    IF cl # <<>> THEN [kind |-> "commits", lines |-> cl]
    ELSE [kind |-> "no_commits", lines |-> <<>>]

\* lines 130-151: the document is assembled
N_Assemble ==
    /\ npc = "assemble"
    /\ markdown_body' = [info |-> release_info,
                         summary |-> SummarySection(summary_lines, linear_ids),
                         changes |-> ChangesSection(change_log_lines)]
    /\ npc' = StepAfter("assemble")
    /\ UNCHANGED <<n_api_key, dry_run_env, is_dry_run, prev_tag, log_range,
                   commits, linear_ids, change_log_lines, fetch, summary_lines,
                   release_info, file, write_attempts, write_result, n_output,
                   lookups, lookup_result, patches, patch_result, release_body,
                   n_exit>>
    /\ UNCHANGED <<mvars, vvars>>

\* lines 155-160: the file after open(..., "w") and write: written, left as it
\* was when open raises, or cut short when write raises
FileAfterWrite(w, f, doc) ==
    CASE w = "ok"           -> [state |-> "written", content |-> doc]
      [] w = "write_failed" -> [state |-> "truncated", content |-> NoDoc]
      [] OTHER              -> f

\* lines 153-160: the local file is written; a failure is printed and the run
\* goes on
N_WriteFile ==
    /\ npc = "write"
    /\ \E w \in {"ok", "open_failed", "write_failed"} :
        /\ write_result' = w
        /\ file' = FileAfterWrite(w, file, markdown_body)
    /\ write_attempts' = write_attempts + 1
    /\ npc' = StepAfter("write")
    /\ UNCHANGED <<n_api_key, dry_run_env, is_dry_run, prev_tag, log_range,
                   commits, linear_ids, change_log_lines, fetch, summary_lines,
                   release_info, markdown_body, n_output, lookups,
                   lookup_result, patches, patch_result, release_body, n_exit>>
    /\ UNCHANGED <<mvars, vvars>>

\* lines 163-170: a dry run prints the document and exits 0
N_DryRunOutput ==
    /\ npc = "deliver" /\ is_dry_run
    /\ n_output' = "dry_run_document"
    /\ n_exit' = 0
    /\ npc' = "done"
    /\ UNCHANGED <<n_api_key, dry_run_env, is_dry_run, prev_tag, log_range,
                   commits, linear_ids, change_log_lines, fetch, summary_lines,
                   release_info, markdown_body, file, write_attempts,
                   write_result, lookups, lookup_result, patches, patch_result,
                   release_body>>
    /\ UNCHANGED <<mvars, vvars>>

\* What the release lookup can give: the release (JSON with an "id"), JSON
\* without an "id" (KeyError or TypeError), an HTTPError, another exception.
LookupResults == {"found", "no_id", "http_error", "error"}
\* What the patch can give
PatchResults == {"ok", "http_error", "error"}

\* (mutant) a response without an id passes (release_data.get('id'))
LookupOkWithoutId(r) == r \in {"found", "no_id"}

\* lines 185-187: the lookup gave a release id
LookupOk(r) == r = "found"
\* lines 197-198
PatchOk(r) == r = "ok"
\* lines 200-205: the message of a failed delivery
ErrorOutput(r) == IF r = "http_error" THEN "http_error" ELSE "unexpected_error"

\* lines 182-187, 200-205: the release is looked up by tag
N_Lookup ==
    /\ npc = "deliver" /\ ~is_dry_run
    /\ lookups' = lookups + 1
    /\ \E r \in LookupResults :
        /\ lookup_result' = r
        /\ IF LookupOk(r)
           THEN npc' = StepAfter("deliver") /\ UNCHANGED <<n_output, n_exit>>
           ELSE npc' = "done" /\ n_exit' = 1 /\ n_output' = ErrorOutput(r)
    /\ UNCHANGED <<n_api_key, dry_run_env, is_dry_run, prev_tag, log_range,
                   commits, linear_ids, change_log_lines, fetch, summary_lines,
                   release_info, markdown_body, file, write_attempts,
                   write_result, patches, patch_result, release_body>>
    /\ UNCHANGED <<mvars, vvars>>

\* lines 189-205: the release body is patched; main returns (exit code 0) or
\* exits 1
N_Patch ==
    /\ npc = "patch"
    /\ patches' = patches + 1
    /\ \E r \in PatchResults :
        /\ patch_result' = r
        /\ IF PatchOk(r)
           THEN /\ release_body' = markdown_body
                /\ n_output' = "updated"
                /\ n_exit' = 0
           ELSE /\ n_output' = ErrorOutput(r)
                /\ n_exit' = 1
                /\ UNCHANGED release_body
    /\ npc' = StepAfter("patch")
    /\ UNCHANGED <<n_api_key, dry_run_env, is_dry_run, prev_tag, log_range,
                   commits, linear_ids, change_log_lines, fetch, summary_lines,
                   release_info, markdown_body, file, write_attempts,
                   write_result, lookups, lookup_result>>
    /\ UNCHANGED <<mvars, vvars>>

N_Next ==
    \/ N_ReadConfig
    \/ N_ResolveRange
    \/ N_GitLog
    \/ N_Extract
    \/ N_Fetch
    \/ N_ReleaseInfo
    \/ N_Assemble
    \/ N_WriteFile
    \/ N_DryRunOutput
    \/ N_Lookup
    \/ N_Patch

----------------------------------------------------------------------------
(* Specifications *)

\* lines 91-92 of the validator, on one text
M_Search ==
    /\ ~m_result.searched
    /\ m_result' = [searched |-> TRUE, matched |-> ReMatches(m_text),
                    group |-> IF ReMatches(m_text) THEN Group1(m_text) ELSE <<>>]
    /\ UNCHANGED <<m_text, vvars, nvars>>

InitMatcher == M_Choose /\ V_Start /\ N_Start
InitValidator == M_Start /\ V_Start /\ N_Start
InitNotes == M_Start /\ V_Start /\ N_Start

\* the pattern matcher on every text of MatcherTexts
SpecMatcher == InitMatcher /\ [][M_Search]_vars
\* one run of the validator
SpecValidator == InitValidator /\ [][V_Next]_vars
\* one run of the release notes generator
SpecNotes == InitNotes /\ [][N_Next]_vars

----------------------------------------------------------------------------
(* Terms of the claims, stated apart from the definitions above *)

\* t starts with uppercase letters, a hyphen, digits, a colon, one space, and
\* holds at least MinDescLen further characters of any kind
StartsWithIdColonSpace(t) ==
    \E a \in 1..Len(t), b \in 1..Len(t) :
        /\ \A i \in 1..a : t[i] \in UpperChars
        /\ a + 1 <= Len(t) /\ t[a + 1] = "-"
        /\ b >= a + 2
        /\ \A i \in (a + 2)..b : t[i] \in DigitChars
        /\ b + 2 <= Len(t)
        /\ t[b + 1] = ":" /\ t[b + 2] = " "
        /\ Len(t) - (b + 2) >= MinDescLen

\* the run was a push of a merge commit
MergeSkip ==
    /\ event_name = "push"
    /\ \/ /\ Len(commit_msg) >= Len(MergePullRequest)
          /\ SubSeq(commit_msg, 1, Len(MergePullRequest)) = MergePullRequest
       \/ /\ Len(commit_msg) >= Len(MergeBranch)
          /\ SubSeq(commit_msg, 1, Len(MergeBranch)) = MergeBranch

\* a JSON value that is not null (and not missing)
NonNull(k) == k \notin {"null", NA}
\* a JSON value that is not null, false, 0, "" or an empty container
NonEmpty(k) == k \in {"true_scalar", "obj"}
\* a JSON object
AnObject(k) == k \in {"empty_obj", "obj"}

\* the response names an existing ticket: data, issue and id are there and
\* not empty
TicketExists(r) ==
    /\ r.http = "ok" /\ r.top = "obj" /\ r.data = "obj" /\ r.issue = "obj"
    /\ NonEmpty(r.id)

\* the one failure the response leads to, by its cause
CauseOf(r) ==
    IF r.http # "ok" THEN "connection"
    ELSE IF ~AnObject(r.top) THEN "connection"
    ELSE IF r.top = "empty_obj" \/ ~NonEmpty(r.data) THEN "api_error"
    ELSE IF r.data # "obj" THEN "connection"
    ELSE IF ~NonEmpty(r.issue) THEN "not_found"
    ELSE IF r.issue # "obj" THEN "connection"
    ELSE "not_found"

\* l is the first line of b
IsFirstLineOf(l, b) ==
    \E k \in 0..Len(b) :
        /\ l = SubSeq(b, 1, k)
        /\ \A i \in 1..k : b[i] \notin LineBreakChars
        /\ k = Len(b) \/ b[k + 1] \in LineBreakChars

\* v is "true" in some letter case
IsTrueAnyCase(v) ==
    /\ Len(v) = 4
    /\ v[1] \in {"t", "T"} /\ v[2] \in {"r", "R"}
    /\ v[3] \in {"u", "U"} /\ v[4] \in {"e", "E"}

\* the ids the summary lines list
ListedIds == {summary_lines[i] : i \in 1..Len(summary_lines)}

----------------------------------------------------------------------------
(* The claims *)

\* C1 (as claimed): the pattern accepts a text exactly when it starts with
\* uppercase letters, a hyphen, digits, a colon, exactly one space character
\* and at least 10 further characters of any kind.
C1_AcceptsExactlyIdColonSpace ==
    m_result.searched => (m_result.matched <=> StartsWithIdColonSpace(m_text))

\* C2: a push whose commit message starts with "Merge pull request" or
\* "Merge branch" ends with exit code 0, with no issue query and no comment
\* sent, whatever the API key.
C2_MergeCommitSkipped ==
    (MergeSkip /\ pc \notin {"start", "resolve"}) =>
        /\ pc = "done" /\ exit_code = 0
        /\ linear_queries = 0 /\ comment_attempts = 0
        /\ resp = NoResp /\ failures = <<>>

\* a merge commit pushed with no API key set has ended with exit code 0
C2_Witness ==
    /\ pc = "done" /\ exit_code = 0 /\ event_name = "push"
    /\ linear_api_key = NoneVal
    /\ commit_msg = MergeBranch \o <<" ">> \o T_Valid

\* C3 (as claimed): with a ticket id extracted and the API key present, one
\* query is sent; the run exits 0 exactly when data, issue and id are all
\* non-null; otherwise it exits 1 with one failure message: API error for
\* null data, not-found for null issue or id, connection error for an
\* exception.
C3_NonNullDecides ==
    (pc = "done" /\ match = "match" /\ Truthy(linear_api_key)) =>
        /\ linear_queries = 1
        /\ exit_code = 0 <=>
              (resp.http = "ok" /\ NonNull(resp.data) /\ NonNull(resp.issue)
               /\ NonNull(resp.id))
        /\ exit_code # 0 => (exit_code = 1 /\ Len(failures) = 1)
        /\ resp.http # "ok" => failures = <<"connection">>
        /\ (resp.top = "obj" /\ resp.data = "null") => failures = <<"api_error">>
        /\ (resp.data = "obj" /\ (resp.issue = "null" \/ resp.id = "null"))
              => failures = <<"not_found">>

\* C3 (amended): with a ticket id extracted and the API key present, one query
\* is sent; the run exits 0 exactly when data is a non-empty object whose
\* issue is a non-empty object with an id that is not null, false, 0 or
\* empty; otherwise it exits 1 with exactly one failure message: API error for
\* null, missing, false or empty data, not-found for such an issue or id,
\* connection error for a network or parse exception or for a response, data
\* or issue that is a non-object value.
C3_NonEmptyDecides ==
    (pc = "done" /\ match = "match" /\ Truthy(linear_api_key)) =>
        /\ linear_queries = 1
        /\ exit_code = 0 <=> TicketExists(resp)
        /\ exit_code = 0 => failures = <<>>
        /\ exit_code # 0 => (exit_code = 1 /\ failures = <<CauseOf(resp)>>)

\* a response whose id is there but empty has been reported as not found
C3_Witness ==
    /\ pc = "done" /\ linear_queries = 1 /\ exit_code = 1
    /\ resp = Response("ok", "obj", "obj", "obj", "false_scalar")
    /\ failures = <<"not_found">>

\* C4: on a pull request with an empty or "None" body the title is the text
\* validated (an empty title fails at once with exit code 1, before any match
\* or query; a title that matches leads to the result of the query of its
\* ticket id); with any other body the text is the body's first line,
\* whatever the title.
C4_PullRequestText ==
    (event_name = "pull_request" /\ pc \notin {"start", "resolve"}) =>
        /\ env_pr_body \in {<<>>, NoneLiteral} =>
            /\ text_to_check = pr_title /\ check_source = "PR Title"
            /\ pr_title = <<>> =>
                  /\ pc = "done" /\ exit_code = 1 /\ match = "unset"
                  /\ linear_queries = 0 /\ failures = <<"empty_pr">>
            /\ (pc = "done" /\ match = "match" /\ Truthy(linear_api_key)) =>
                  /\ linear_queries = 1
                  /\ pr_title = ticket_id \o SubSeq(pr_title, Len(ticket_id) + 1, Len(pr_title))
                  /\ exit_code = 0 <=> TicketExists(resp)
        /\ env_pr_body \notin {<<>>, NoneLiteral} =>
            /\ IsFirstLineOf(text_to_check, env_pr_body)
            /\ check_source = "First line of PR Description"

\* a pull request with body "None" has been validated by its title
C4_Witness ==
    /\ pc = "done" /\ event_name = "pull_request" /\ exit_code = 0
    /\ env_pr_body = NoneLiteral /\ pr_title = T_Valid
    /\ ticket_id = Ticket1

\* C5 (as claimed): the listing is the summary only when metadata came for
\* every referenced id; with ids referenced and the fetch failed, skipped or
\* partial, the summary is the warning and the sorted ids; with no id
\* referenced it is the "none referenced" message.
C5_ListingOnlyWhenComplete ==
    markdown_body.summary.kind # "unset" =>
        LET complete == /\ fetch.attempted /\ ~fetch.failed
                        /\ linear_ids \subseteq ListedIds
        IN  /\ markdown_body.summary.kind = "listing" => complete
            /\ (linear_ids # {} /\ ~complete) =>
                  /\ markdown_body.summary.kind = "warning"
                  /\ markdown_body.summary.lines = SortedIds(linear_ids)
            /\ linear_ids = {} => markdown_body.summary.kind = "none"

C7_DryRunNeverDelivers ==
    IsTrueAnyCase(dry_run_env) =>
        /\ lookups = 0 /\ patches = 0
        /\ lookup_result = "none" /\ patch_result = "none"
        /\ release_body = NoDoc
        /\ npc # "patch"
        /\ (npc = "done" /\ write_attempts > 0) =>
              (n_exit = 0 /\ n_output = "dry_run_document")

\* a dry run in mixed case ended after a failed fetch and a failed write
C7_Witness ==
    /\ npc = "done" /\ n_exit = 0 /\ n_output = "dry_run_document"
    /\ dry_run_env = <<"T","r","u","E">>
    /\ fetch.attempted /\ fetch.failed /\ write_result = "open_failed"

\* C8: in a live run the lookup is sent once; the patch is sent at most once
\* and only after a lookup that gave a release id; the run exits 0 exactly
\* when lookup and patch both succeeded, and 1 otherwise.
C8_LookupThenPatch ==
    /\ lookups <= 1 /\ patches <= 1
    /\ patches > 0 => (lookups = 1 /\ lookup_result = "found")
    /\ (npc = "done" /\ write_attempts > 0 /\ ~IsTrueAnyCase(dry_run_env)) =>
        /\ lookups = 1
        /\ patches = (IF lookup_result = "found" THEN 1 ELSE 0)
        /\ n_exit = 0 <=> (lookup_result = "found" /\ patch_result = "ok")
        /\ n_exit \in {0, 1}

\* the lookup response held no id: no patch, exit code 1
C8_Witness ==
    /\ npc = "done" /\ n_exit = 1 /\ lookups = 1 /\ patches = 0
    /\ lookup_result = "no_id"

\* C9: every failing path exits 1 whether the comment was posted, failed or
\* was not tried; a comment is tried at most once, only on a pull request
\* with repository, PR number and token set, and never on a run that exits 0.
C9_CommentBestEffort ==
    /\ comment_attempts <= 1
    /\ comment_attempts > 0 =>
          /\ event_name = "pull_request"
          /\ repo \notin {NoneVal, ""} /\ pr_num \notin {NoneVal, ""}
          /\ token \notin {NoneVal, ""}
          /\ comment_result \in {"posted", "failed"}
    /\ comment_attempts = 0 => comment_result = "none"
    /\ failures # <<>> => (pc = "done" /\ exit_code = 1)
    /\ exit_code = 0 => (comment_attempts = 0 /\ failures = <<>>)

\* the comment was tried and could not be posted
C9_Witness ==
    /\ pc = "done" /\ exit_code = 1 /\ comment_attempts = 1
    /\ comment_result = "failed"

\* C10 (as claimed): a run with the API key missing ends with exit code 1 and
\* sends no issue query; exit code 0 comes only from a successful validation
\* or a skipped merge commit.
C10_MissingKeyExitsOne ==
    /\ linear_api_key \in {NoneVal, ""} =>
          (linear_queries = 0 /\ (pc = "done" => exit_code = 1))
    /\ exit_code = 0 =>
          (MergeSkip \/ (match = "match" /\ linear_queries = 1 /\ TicketExists(resp)))

\* C10 (amended): a run with the API key missing sends no issue query and ends
\* with exit code 1, unless it is a push of a merge commit, which ends with
\* exit code 0; exit code 0 comes only from a successful validation or a
\* skipped merge commit.
C10_MissingKeyExitsOneUnlessMerge ==
    /\ (linear_api_key \in {NoneVal, ""} /\ pc # "start") =>
          /\ linear_queries = 0
          /\ pc = "done" => exit_code = (IF MergeSkip THEN 0 ELSE 1)
    /\ exit_code = 0 =>
          (MergeSkip \/ (match = "match" /\ linear_queries = 1 /\ TicketExists(resp)))

\* a run with an empty API key failed after the pattern matched
C10_Witness ==
    /\ pc = "done" /\ exit_code = 1 /\ linear_api_key = ""
    /\ match = "match" /\ failures = <<"no_api_key">> /\ linear_queries = 0

====
